---- MODULE Spec2Model ----
(***************************************************************************)
(* Model of src/app.py: a Flask service with two routes, '/' and           *)
(* '/caption'.  Module-level code loads the captioning pipeline once;      *)
(* caption_image saves the upload into UPLOAD_FOLDER, opens it again and   *)
(* runs the primary generation, falling back to a second preset inside the *)
(* except clause.  app.run(threaded=True) handles each request in its own  *)
(* thread; the threads share the module globals and the upload folder.     *)
(***************************************************************************)
EXTENDS Naturals, Integers, Sequences, FiniteSets, TLC

VARIABLES
    main,               \* position of the module-level code: "load" | "serving"
    models_available,   \* result of the guarded imports, lines 33-46
    model, feature_extractor, tokenizer, device,   \* module globals, lines 58-61
    uploads,            \* the upload folder: file name -> content of the file
    pc,                 \* per request thread: position inside the handler
    request,            \* per request thread: the request being handled
    file_path,          \* local of caption_image, line 103
    image,              \* local of caption_image, line 115
    pixel_values,       \* local of caption_image, line 125
    exc,                \* local e bound by the except clause at line 150
    exc2,               \* local e2 bound by the except clause at line 171
    calls,              \* history: calls made on behalf of each request
    responses           \* per request thread: responses sent, in order

globals == <<models_available, model, feature_extractor, tokenizer, device>>
locals  == <<file_path, image, pixel_values, exc, exc2>>
vars    == <<main, globals, uploads, pc, request, locals, calls, responses>>

----------------------------------------------------------------------------
(* Bounds and input sets *)

\* number of request threads alive at the same time
NumRequests == 2

Requests == 1..NumRequests

None    == "None"
\* a local name of caption_image that no statement has assigned yet
Unbound == <<>>
NoException == "no exception"
\* the folder holds no file under that name
Absent  == 0

\* raw filenames a client may send (sequences of characters)
FileNames == { <<>>, <<"a">>, <<"/", "a">>, <<".", ".">>, <<"b">> }

\* shapes of a request; the content of an upload is identified by the
\* request that uploaded it
\* app.config['MAX_CONTENT_LENGTH'], line 55
MAX_CONTENT_LENGTH == 16777216

RequestShapes(r) ==
    { [route |-> "/", hasImage |-> FALSE, filename |-> <<>>, content |-> r, length |-> 0] }
    \cup { [route |-> "/caption", hasImage |-> FALSE, filename |-> <<>>, content |-> r,
             length |-> n] : n \in {MAX_CONTENT_LENGTH, MAX_CONTENT_LENGTH + 1} }
    \cup { [route |-> "/caption", hasImage |-> TRUE, filename |-> f, content |-> r,
             length |-> MAX_CONTENT_LENGTH] : f \in FileNames }
    \cup { [route |-> "/caption", hasImage |-> TRUE, filename |-> <<"a">>, content |-> r,
             length |-> MAX_CONTENT_LENGTH + 1] }

NoRequest == [route |-> None, hasImage |-> FALSE, filename |-> <<>>, content |-> 0, length |-> 0]

----------------------------------------------------------------------------
(* werkzeug.utils.secure_filename, as called at line 102 *)

\* filename.replace(os.sep, " ")
ReplaceSep(s) == [i \in 1..Len(s) |-> IF s[i] = "/" THEN " " ELSE s[i]]

\* "_".join(filename.split())
RECURSIVE SplitJoin(_, _)
SplitJoin(s, started) ==
    IF s = <<>> THEN <<>>
    ELSE IF Head(s) = " "
         THEN LET rest == SplitJoin(Tail(s), FALSE)
              IN  IF started /\ rest # <<>> /\ Head(rest) # "_"
                  THEN <<"_">> \o rest ELSE rest
         ELSE <<Head(s)>> \o SplitJoin(Tail(s), TRUE)

\* str.strip("._")
RECURSIVE StripLeft(_)
StripLeft(s) ==
    IF s # <<>> /\ Head(s) \in {".", "_"} THEN StripLeft(Tail(s)) ELSE s

RECURSIVE StripRight(_)
StripRight(s) ==
    IF s # <<>> /\ s[Len(s)] \in {".", "_"}
    THEN StripRight(SubSeq(s, 1, Len(s) - 1)) ELSE s

secure_filename(s) == StripRight(StripLeft(SplitJoin(ReplaceSep(s), FALSE)))

\* os.path.join(app.config['UPLOAD_FOLDER'], filename), line 103
UPLOAD_FOLDER == <<"uploads">>
PathJoin(dir, name) == <<dir, name>>

\* FileStorage.__bool__, the test "if file:" at line 101
FileBool_NeedsExtension(req) == \E i \in 1..Len(req.filename) : req.filename[i] = "."

FileBool(req) == req.filename # <<>>

----------------------------------------------------------------------------
(* Response headers: a case-insensitive mapping, lines 180-187 *)

Lower(k) ==
    CASE k = "Cache-Control" -> "cache-control"
      [] k = "Pragma"        -> "pragma"
      [] k = "Expires"       -> "expires"
      [] OTHER               -> k

HeaderSet(h, k, v) == { p \in h : Lower(p[1]) # Lower(k) } \cup { <<k, v>> }

HeaderGet(h, k) ==
    IF \E p \in h : Lower(p[1]) = Lower(k)
    THEN (CHOOSE p \in h : Lower(p[1]) = Lower(k))[2]
    ELSE None

after_request(response) ==
    LET h1 == HeaderSet(response.headers, "Cache-Control", "no-cache, no-store, must-revalidate")
        h2 == HeaderSet(h1, "Pragma", "no-cache")
        h3 == HeaderSet(h2, "Expires", "0")
        h4 == HeaderSet(h3, "Cache-Control", "public, max-age=0")
    IN  [response EXCEPT !.headers = h4]

\* jsonify(body) with a status; Flask then runs after_request on it
jsonify(key, value, status) ==
    [status |-> status, key |-> key, value |-> value,
     headers |-> { <<"Content-Type", "application/json">> }]

Send(r, resp) == responses' = [responses EXCEPT ![r] = Append(@, after_request(resp))]

----------------------------------------------------------------------------
(* The inference pipeline objects *)

\* feature_extractor(images=[image], ...).pixel_values
Features(img) == <<"pixel_values", img>>
\* model.generate(pixel_values, <preset>)
Generate(pv, preset) == <<"output_ids", preset, pv[2]>>
\* tokenizer.batch_decode(output_ids, ...)[0].strip()
Decode(output_ids) == <<"text", output_ids[2], output_ids[3]>>

PrimaryPreset  == "num_beams=1, do_sample=False"
FallbackPreset == "do_sample=True, top_k=50, top_p=0.95"

DummyCaption == <<"Image captioning model not available. Please check server logs.">>

NoCalls == [save |-> 0, open |-> 0, extract |-> 0, primary |-> 0, fallback |-> 0,
            primary_raised |-> FALSE, fallback_raised |-> FALSE]

----------------------------------------------------------------------------
\* the files the upload folder can hold
Paths == { PathJoin(UPLOAD_FOLDER, secure_filename(f)) : f \in FileNames }

Init ==
    /\ main = "load"
    /\ models_available \in BOOLEAN
    /\ model = None /\ feature_extractor = None /\ tokenizer = None /\ device = None
    /\ uploads = [p \in Paths |-> Absent]
    /\ pc = [r \in Requests |-> "idle"]
    /\ request = [r \in Requests |-> NoRequest]
    /\ file_path = [r \in Requests |-> Unbound]
    /\ image = [r \in Requests |-> Unbound]
    /\ pixel_values = [r \in Requests |-> Unbound]
    /\ exc = [r \in Requests |-> NoException]
    /\ exc2 = [r \in Requests |-> NoException]
    /\ calls = [r \in Requests |-> NoCalls]
    /\ responses = [r \in Requests |-> <<>>]

\* Lines 57-75: load the pipeline; any exception resets model to None only.
LoadSteps == <<"model", "feature_extractor", "tokenizer", "device", "to_device">>

LoadModels_KeepModel ==
    /\ main = "load"
    /\ main' = "serving"
    /\ IF ~models_available
       THEN UNCHANGED <<model, feature_extractor, tokenizer, device>>
       ELSE \E failAt \in 1..(Len(LoadSteps) + 1) :
              /\ model' = IF failAt > 1 THEN "VisionEncoderDecoderModel" ELSE None
              /\ feature_extractor' = IF failAt > 2 THEN "ViTImageProcessor" ELSE None
              /\ tokenizer' = IF failAt > 3 THEN "AutoTokenizer" ELSE None
              /\ device' = IF failAt > 4 THEN "torch.device" ELSE None
    /\ UNCHANGED <<models_available, uploads, pc, request, locals, calls, responses>>

LoadModels_PerRequest ==
    /\ \A r \in Requests : pc[r] \in {"idle", "done"}
    /\ main' = "serving"
    /\ IF ~models_available
       THEN UNCHANGED <<model, feature_extractor, tokenizer, device>>
       ELSE \E failAt \in 1..(Len(LoadSteps) + 1) :
              /\ model' = IF failAt <= Len(LoadSteps) THEN None ELSE "VisionEncoderDecoderModel"
              /\ feature_extractor' = IF failAt > 2 THEN "ViTImageProcessor" ELSE None
              /\ tokenizer' = IF failAt > 3 THEN "AutoTokenizer" ELSE None
              /\ device' = IF failAt > 4 THEN "torch.device" ELSE None
    /\ UNCHANGED <<models_available, uploads, pc, request, locals, calls, responses>>

LoadModels ==
    /\ main = "load"
    /\ main' = "serving"
    /\ IF ~models_available
       THEN UNCHANGED <<model, feature_extractor, tokenizer, device>>
       ELSE \E failAt \in 1..(Len(LoadSteps) + 1) :
              /\ model' = IF failAt <= Len(LoadSteps) THEN None ELSE "VisionEncoderDecoderModel"
              /\ feature_extractor' = IF failAt > 2 THEN "ViTImageProcessor" ELSE None
              /\ tokenizer' = IF failAt > 3 THEN "AutoTokenizer" ELSE None
              /\ device' = IF failAt > 4 THEN "torch.device" ELSE None
    /\ UNCHANGED <<models_available, uploads, pc, request, locals, calls, responses>>

Goto(r, label) == pc' = [pc EXCEPT ![r] = label]
Count(r, what) == [calls EXCEPT ![r][what] = @ + 1]

\* Lines 77-80: GET /
index(r) ==
    /\ main = "serving" /\ pc[r] = "idle"
    /\ \E req \in { q \in RequestShapes(r) : q.route = "/" } :
         request' = [request EXCEPT ![r] = req]
    /\ Send(r, jsonify("status", <<"Server is running">>, 200))
    /\ Goto(r, "done")
    /\ UNCHANGED <<main, globals, uploads, locals, calls>>

\* Lines 88-98: the two checks made before anything else; <<>> when both pass
ValidationError_NoFilenameCheck(req) ==
    IF ~req.hasImage THEN <<"No image part in the request">> ELSE <<>>

ValidationError(req) ==
    IF ~req.hasImage THEN <<"No image part in the request">>
    ELSE IF req.filename = <<>> THEN <<"No selected file">>
    ELSE <<>>

\* Lines 82-101 and 175-178: POST /caption arrives and is validated.  Reading
\* request.files on a body longer than MAX_CONTENT_LENGTH raises
\* RequestEntityTooLarge inside the try, which the outer except answers.
Validate(r) ==
    /\ main = "serving" /\ pc[r] = "idle"
    /\ \E req \in { q \in RequestShapes(r) : q.route = "/caption" } :
         /\ request' = [request EXCEPT ![r] = req]
         /\ IF req.length > MAX_CONTENT_LENGTH
            THEN /\ Send(r, jsonify("error", <<"str(e)", "413 Request Entity Too Large">>, 500))
                 /\ Goto(r, "done")
            ELSE IF ValidationError(req) # <<>>
            THEN /\ Send(r, jsonify("error", ValidationError(req), 400))
                 /\ Goto(r, "done")
            ELSE IF FileBool(req)
            THEN /\ Goto(r, "save")
                 /\ UNCHANGED responses
            ELSE \* the function falls off its end and returns None
                 /\ Goto(r, "done")
                 /\ UNCHANGED responses
    /\ UNCHANGED <<main, globals, uploads, locals, calls>>

\* Lines 102-110 and 175-178: save the upload, then test the model global
SaveUpload(r) ==
    /\ pc[r] = "save"
    /\ LET filename == secure_filename(request[r].filename)
           path     == PathJoin(UPLOAD_FOLDER, filename)
       IN
       /\ file_path' = [file_path EXCEPT ![r] = path]
       /\ \E disk_ok \in BOOLEAN :
            IF filename = <<>> \/ ~disk_ok
            THEN \* file.save raises; the outer except answers
                 /\ Send(r, jsonify("error", <<"str(e)", "save">>, 500))
                 /\ Goto(r, "done")
                 /\ UNCHANGED <<uploads, calls>>
            ELSE /\ uploads' = [uploads EXCEPT ![path] = request[r].content]
                 /\ calls' = Count(r, "save")
                 /\ IF model = None
                    THEN /\ Send(r, jsonify("caption", DummyCaption, 200))
                         /\ Goto(r, "done")
                    ELSE /\ Goto(r, "open")
                         /\ UNCHANGED responses
    /\ UNCHANGED <<main, globals, request, image, pixel_values, exc, exc2>>

\* Lines 112-122: open the saved file again
OpenImage(r) ==
    /\ pc[r] = "open"
    /\ calls' = Count(r, "open")
    /\ \E ok \in BOOLEAN :
         IF ok
         THEN /\ image' = [image EXCEPT ![r] = <<"image", uploads[file_path[r]]>>]
              /\ Goto(r, "infer")
              /\ UNCHANGED exc
         ELSE /\ exc' = [exc EXCEPT ![r] = "open"]
              /\ Goto(r, "fallback")
              /\ UNCHANGED image
    /\ UNCHANGED <<main, globals, uploads, request, file_path, pixel_values, exc2, responses>>

\* Lines 124-150: feature extraction, primary generation, decoding
InferFaults == {"none", "extract", "to_device", "generate", "decode"}

\* calls made by lines 125-140 when the statement named by fault raises
InferCalls_Retry(c, fault) ==
    [c EXCEPT !.extract = @ + 1,
              !.primary = IF fault \in {"extract", "to_device"} THEN @
                          ELSE IF fault = "generate" THEN @ + 2 ELSE @ + 1,
              !.primary_raised = (fault = "generate")]

InferCalls(c, fault) ==
    [c EXCEPT !.extract = @ + 1,
              !.primary = IF fault \in {"extract", "to_device"} THEN @ ELSE @ + 1,
              !.primary_raised = (fault = "generate")]

Infer(r) ==
    /\ pc[r] = "infer"
    /\ \E fault \in InferFaults :
         LET pv == Features(image[r][2]) IN
         /\ calls' = [calls EXCEPT ![r] = InferCalls(@, fault)]
         /\ pixel_values' = [pixel_values EXCEPT ![r] = IF fault = "extract" THEN @ ELSE pv]
         /\ IF fault = "none"
            THEN /\ Send(r, jsonify("caption", Decode(Generate(pv, PrimaryPreset)), 200))
                 /\ Goto(r, "done")
                 /\ UNCHANGED exc
            ELSE /\ exc' = [exc EXCEPT ![r] = fault]
                 /\ Goto(r, "fallback")
                 /\ UNCHANGED responses
    /\ UNCHANGED <<main, globals, uploads, request, file_path, image, exc2>>

\* Lines 150-174: the except clause with the fallback generation
FallbackFaults == {"none", "generate", "decode"}

\* what the except clause returns, lines 166-174
FallbackReply_DummyWhenUnbound(r, fault) ==
    IF fault = "none"
    THEN jsonify("caption", Decode(Generate(pixel_values[r], FallbackPreset)), 200)
    ELSE IF fault = "unbound pixel_values"
    THEN jsonify("caption", DummyCaption, 200)
    ELSE jsonify("error", <<"Error generating caption: ", exc[r]>>, 500)

FallbackReply_AlwaysError(r, fault) ==
    jsonify("error", <<"Error generating caption: ", exc[r]>>, 500)

FallbackReply(r, fault) ==
    IF fault = "none"
    THEN jsonify("caption", Decode(Generate(pixel_values[r], FallbackPreset)), 200)
    ELSE jsonify("error", <<"Error generating caption: ", exc[r]>>, 500)

Fallback(r) ==
    /\ pc[r] = "fallback"
    /\ \E fault \in IF pixel_values[r] = Unbound
                    THEN {"unbound pixel_values"}   \* the argument raises UnboundLocalError
                    ELSE FallbackFaults :
         /\ calls' = [calls EXCEPT
                        ![r].fallback = IF fault = "unbound pixel_values" THEN @ ELSE @ + 1,
                        ![r].fallback_raised = (fault = "generate")]
         /\ exc2' = [exc2 EXCEPT ![r] = IF fault = "none" THEN @ ELSE fault]
         /\ Send(r, FallbackReply(r, fault))
    /\ Goto(r, "done")
    /\ UNCHANGED <<main, globals, uploads, request, file_path, image, pixel_values, exc>>

Next ==
    \/ LoadModels
    \/ \E r \in Requests : index(r)
    \/ \E r \in Requests : Validate(r)
    \/ \E r \in Requests : SaveUpload(r)
    \/ \E r \in Requests : OpenImage(r)
    \/ \E r \in Requests : Infer(r)
    \/ \E r \in Requests : Fallback(r)

Spec == Init /\ [][Next]_vars

----------------------------------------------------------------------------
(* Vocabulary of the properties *)

Done(r)      == pc[r] = "done"
IsCaption(r) == request[r].route = "/caption"
Reply(r)     == responses[r][1]
Invalid(req) == ~req.hasImage \/ req.filename = <<>>
GenerationError(resp) ==
    resp.status = 500 /\ resp.key = "error" /\ resp.value[1] = "Error generating caption: "

----------------------------------------------------------------------------
\* C1 (as stated): a response carrying 'caption' always holds the decoded
\* output of a generation call made for the same request.
C1_CaptionOnlyFromInference ==
    \A r \in Requests : \A i \in 1..Len(responses[r]) :
        responses[r][i].key = "caption" =>
            /\ calls[r].primary + calls[r].fallback > 0
            /\ \E preset \in {PrimaryPreset, FallbackPreset} :
                 responses[r][i].value = <<"text", preset, image[r][2]>>

\* C1 (amended): a response carrying 'caption' holds either the fixed
\* notice returned when the model global is None (no inference ran), or the
\* decoded output of the primary generation that was invoked and did not
\* raise, or of the fallback generation that was invoked and did not raise,
\* on the pixel values this request extracted.
C1_CaptionFromInferenceOrNotice ==
    \A r \in Requests : \A i \in 1..Len(responses[r]) :
        responses[r][i].key = "caption" =>
            \/ /\ model = None
               /\ responses[r][i].value = DummyCaption
               /\ calls[r].extract = 0 /\ calls[r].primary = 0 /\ calls[r].fallback = 0
            \/ /\ model # None
               /\ calls[r].primary = 1 /\ ~calls[r].primary_raised /\ calls[r].fallback = 0
               /\ responses[r][i].value = <<"text", PrimaryPreset, image[r][2]>>
            \/ /\ model # None
               /\ calls[r].fallback = 1 /\ ~calls[r].fallback_raised
               /\ responses[r][i].value = <<"text", FallbackPreset, image[r][2]>>

C1_Witness ==
    \E r \in Requests :
        /\ Done(r) /\ Len(responses[r]) = 1 /\ Reply(r).key = "caption"
        /\ calls[r].fallback = 1
        /\ Reply(r).value = <<"text", FallbackPreset, image[r][2]>>

\* C2: once a request is answered, the file it saved is gone from the
\* upload folder.
C2_UploadRemovedAfterResponse ==
    \A r \in Requests :
        Done(r) /\ calls[r].save > 0 => uploads[file_path[r]] = Absent

\* C3 (as stated): a request without an image part or with an empty filename
\* is answered 400 with the matching error, saves nothing and runs no
\* inference; files are saved and inference runs only for requests that
\* passed both checks.
C3_ValidationPrecedesEffects ==
    \A r \in Requests :
        /\ Done(r) /\ IsCaption(r) /\ Invalid(request[r]) =>
              /\ Len(responses[r]) = 1
              /\ Reply(r).status = 400 /\ Reply(r).key = "error"
              /\ Reply(r).value = IF ~request[r].hasImage
                                  THEN <<"No image part in the request">>
                                  ELSE <<"No selected file">>
              /\ calls[r] = NoCalls
              /\ file_path[r] = Unbound
              /\ \A p \in Paths : uploads[p] # r
        /\ calls[r] # NoCalls \/ (\E p \in Paths : uploads[p] = r) =>
              IsCaption(r) /\ ~Invalid(request[r])

\* C3 (amended): the same, for requests whose body does not exceed
\* MAX_CONTENT_LENGTH; a longer body is answered 500 by the outer except,
\* also without saving anything or running inference.
C3_ValidationPrecedesEffectsWithinLimit ==
    \A r \in Requests :
        /\ Done(r) /\ IsCaption(r) /\ Invalid(request[r])
              /\ request[r].length <= MAX_CONTENT_LENGTH =>
              /\ Len(responses[r]) = 1
              /\ Reply(r).status = 400 /\ Reply(r).key = "error"
              /\ Reply(r).value = IF ~request[r].hasImage
                                  THEN <<"No image part in the request">>
                                  ELSE <<"No selected file">>
        /\ Done(r) /\ IsCaption(r)
              /\ (Invalid(request[r]) \/ request[r].length > MAX_CONTENT_LENGTH) =>
              /\ calls[r] = NoCalls
              /\ file_path[r] = Unbound
              /\ \A p \in Paths : uploads[p] # r
        /\ calls[r] # NoCalls \/ (\E p \in Paths : uploads[p] = r) =>
              /\ IsCaption(r) /\ ~Invalid(request[r])
              /\ request[r].length <= MAX_CONTENT_LENGTH

C3_Witness ==
    \E r1, r2 \in Requests :
        /\ Done(r1) /\ IsCaption(r1) /\ request[r1].hasImage /\ request[r1].filename = <<>>
        /\ Reply(r1).status = 400
        /\ Done(r2) /\ calls[r2].save = 1 /\ calls[r2].primary = 1

\* C4 (as stated): each generation is invoked at most once per request and
\* the fallback is invoked exactly when the primary was invoked and raised.
C4_FallbackIffPrimaryRaised ==
    \A r \in Requests :
        /\ calls[r].primary <= 1 /\ calls[r].fallback <= 1
        /\ Done(r) => (calls[r].fallback = 1 <=>
                          (calls[r].primary = 1 /\ calls[r].primary_raised))

\* C4 (amended): each generation is invoked at most once per request, and
\* the fallback generation is invoked exactly when a statement of the
\* primary block raised after pixel_values was assigned: the move to the
\* device, the primary generation, or the decoding of its output.
C4_FallbackIffRaisedAfterExtraction ==
    \A r \in Requests :
        /\ calls[r].primary <= 1 /\ calls[r].fallback <= 1
        /\ Done(r) => (calls[r].fallback = 1 <=>
                          exc[r] \in {"to_device", "generate", "decode"})

C4_Witness ==
    \E r \in Requests :
        Done(r) /\ calls[r].fallback = 1 /\ calls[r].primary = 0 /\ exc[r] = "to_device"

\* C5: once startup has finished, no step of any request changes model,
\* feature_extractor, tokenizer or device.
C5_LoaderIsSingleton ==
    [][main = "serving" =>
          UNCHANGED <<model, feature_extractor, tokenizer, device>>]_vars

C5_Witness ==
    \E r1, r2 \in Requests :
        /\ r1 # r2 /\ model # None
        /\ Done(r1) /\ calls[r1].fallback_raised
        /\ Done(r2) /\ request[r2].route = "/"

\* C6: the image a request opens is the content that same request uploaded.
C6_OpensOwnUpload ==
    \A r \in Requests :
        image[r] # Unbound => image[r][2] = request[r].content

\* C7 (as stated): the 'Error generating caption' 500 is sent only when both
\* generations were invoked and both raised; primary raising and fallback
\* generation succeeding gives a 200 with the fallback's caption.
C7_ErrorOnlyWhenBothGenerationsRaised ==
    \A r \in Requests : Done(r) /\ Len(responses[r]) = 1 =>
        /\ GenerationError(Reply(r)) =>
              /\ calls[r].primary = 1 /\ calls[r].primary_raised
              /\ calls[r].fallback = 1 /\ calls[r].fallback_raised
        /\ calls[r].primary_raised /\ calls[r].fallback = 1 /\ ~calls[r].fallback_raised =>
              /\ Reply(r).status = 200 /\ Reply(r).key = "caption"
              /\ Reply(r).value = <<"text", FallbackPreset, image[r][2]>>

\* C7 (amended): the 'Error generating caption' 500 is sent only when a
\* statement of the primary block raised (opening the image, feature
\* extraction, the move to the device, the primary generation or its
\* decoding) and the except clause raised as well (pixel_values was never
\* assigned, the fallback generation raised, or its decoding raised), and the
\* message carries the first exception; when the primary generation raises
\* and the fallback generation and its decoding succeed, the response is a
\* 200 with the fallback's caption.
C7_ErrorOnlyWhenBothBlocksRaised ==
    \A r \in Requests : Done(r) /\ Len(responses[r]) = 1 =>
        /\ GenerationError(Reply(r)) =>
              /\ exc[r] \in {"open"} \cup (InferFaults \ {"none"})
              /\ exc2[r] \in {"unbound pixel_values", "generate", "decode"}
              /\ (exc2[r] = "unbound pixel_values") = (calls[r].fallback = 0)
              /\ Reply(r).value = <<"Error generating caption: ", exc[r]>>
        /\ calls[r].primary_raised /\ calls[r].fallback = 1 /\ exc2[r] = NoException =>
              /\ Reply(r).status = 200 /\ Reply(r).key = "caption"
              /\ Reply(r).value = <<"text", FallbackPreset, image[r][2]>>

C7_Witness ==
    \E r1, r2 \in Requests :
        /\ Done(r1) /\ GenerationError(Reply(r1)) /\ exc[r1] = "open" /\ calls[r1].fallback = 0
        /\ Done(r2) /\ calls[r2].primary_raised /\ Reply(r2).status = 200

\* C8: a finished POST /caption request has exactly one response, with
\* status 200, 400 or 500, 'caption' exactly with 200 and 'error' exactly
\* with 400 or 500; an unfinished one has none yet.
C8_ExactlyOneWellFormedResponse ==
    \A r \in Requests :
        /\ ~Done(r) => responses[r] = <<>>
        /\ Done(r) /\ IsCaption(r) =>
              /\ Len(responses[r]) = 1
              /\ Reply(r).status \in {200, 400, 500}
              /\ Reply(r).key \in {"caption", "error"}
              /\ (Reply(r).key = "caption") = (Reply(r).status = 200)
              /\ (Reply(r).key = "error") = (Reply(r).status \in {400, 500})

C8_Witness ==
    \E r1, r2 \in Requests :
        /\ Done(r1) /\ IsCaption(r1) /\ Reply(r1).status = 500 /\ calls[r1].save = 0
              /\ file_path[r1] # Unbound
        /\ Done(r2) /\ IsCaption(r2) /\ Reply(r2).status = 200 /\ calls[r2].primary = 1

\* C9: after startup a loaded model implies a loaded feature extractor,
\* tokenizer and device; requests use the pipeline only when all four are
\* loaded, and never when model is None.
C9_InferenceNeedsLoadedPipeline ==
    main = "serving" =>
        /\ model # None =>
              feature_extractor # None /\ tokenizer # None /\ device # None
        /\ \A r \in Requests :
              calls[r].extract > 0 \/ calls[r].primary > 0 \/ calls[r].fallback > 0
                 \/ pc[r] \in {"open", "infer", "fallback"} =>
                 model # None /\ feature_extractor # None /\ tokenizer # None /\ device # None

C9_Witness ==
    /\ \E r \in Requests : calls[r].primary = 1 /\ calls[r].fallback = 1
    /\ model # None /\ feature_extractor # None

\* C10: every response leaves after_request with the three no-cache headers.
C10_NoCacheHeaders ==
    \A r \in Requests : \A i \in 1..Len(responses[r]) :
        /\ HeaderGet(responses[r][i].headers, "Cache-Control") = "no-cache, no-store, must-revalidate"
        /\ HeaderGet(responses[r][i].headers, "Pragma") = "no-cache"
        /\ HeaderGet(responses[r][i].headers, "Expires") = "0"
====
